---------------------------- MODULE Spec2Model ----------------------------
(***************************************************************************)
(* Model of rust-ue-tools: the bundle resolution and extraction pipeline.  *)
(*                                                                         *)
(*   SpecList    UtocLister::list as a function of the chunk records       *)
(*   SpecFolder  PyUnpacker::extract_pak_asset_map_from_folder             *)
(*   SpecBatch   process_multiple_files (one thread per input path)        *)
(*                                                                         *)
(* An interior path is a sequence of one-character strings, so that the    *)
(* extension test, the lowercasing and the byte-wise ordering are computed *)
(* rather than assumed.                                                    *)
(***************************************************************************)
EXTENDS Integers, Sequences, FiniteSets, TLC

VARIABLES
    \* ---- UtocLister::list on its own
    chunks,         \* the chunk records the IoStore reader yields
    list_out,       \* None, or Some of the Vec<AssetPath> the call returned
    \* ---- folder flow
    tree,           \* the regular files under folder_path
    aes_key,        \* the aes_key argument: NoKey, or a key string
    fpc,            \* position in extract_pak_asset_map_from_folder
    pak_files,      \* Vec<PathBuf> filled by the walk
    utoc_files,     \* Vec<PathBuf> filled by the walk
    pi,             \* index of the next element of pak_files
    ui,             \* index of the next element of utoc_files
    result_map,     \* HashMap<String, Vec<String>>
    content,        \* what the readers found in each file opened so far
    opened,         \* the files a reader has opened (File::open / open_iostore)
    handled,        \* the branch the loops took for each file they reached
    origin,         \* for each key of result_map, the file its list was read from
    \* ---- batch flow
    file_paths,     \* the file_paths slice
    batch_key,      \* the aes_key argument of the batch call
    opc,            \* position of the orchestrating thread
    oi,             \* next handle to spawn or to join
    wpc,            \* position of each worker thread
    wres,           \* what each worker's extraction returned
    results,        \* Arc<Mutex<HashMap<String, Vec<AssetPath>>>>: the map
    results_lock,   \* owner of the results mutex, 0 when free
    progress,       \* Arc<Mutex<usize>>: the counter
    progress_lock,  \* owner of the progress mutex, 0 when free
    printed,        \* the progress values printed so far
    \* ---- archive flow
    archive_ext,    \* the extension of archive_path, if it has one
    archive_files,  \* the regular files packed in the archive
    extract_out,    \* how staging the archive will end
    keep_temp,      \* the keep_temp argument
    arch_key,       \* the aes_key argument of the archive call
    apc,            \* position in extract_asset_paths_from_archive
    temp_dir,       \* the scratch directory: "none", "live" or "deleted"
    staged,         \* the files present in the scratch directory
    arch_pak_files, \* pak_files of the archive flow
    arch_utoc_files,\* utoc_files of the archive flow
    api,            \* index of the next element of arch_pak_files
    aui,            \* index of the next element of arch_utoc_files
    arch_handled,   \* what the loops did with each file they reached
    all_assets,     \* the Vec<AssetPath> being collected
    arch_ret,       \* the Result the archive call returned
    \* ---- single calls of one operation
    call,           \* the operation called and its arguments
    ret,            \* what it returned
    \* ---- one unit's extraction with a progress callback set
    upak,           \* the pak file: missing, or what the pak reader reports
    uopts,          \* output_dir and the PakUnpackOptions of the call
    upc,            \* position of the call
    disk,           \* the files on disk: path to content
    created,        \* the files and directories the call created so far
    unpacked_files, \* the Vec<UnpackedFile> being collected
    events,         \* the ProgressInfo values the callback received
    uret,           \* the Result the call returned
    \* ---- Unpacker::find_rar_tool
    rar_env,        \* RAR_TOOL_PATH: None, or Some of the path it names
    rar_exists,     \* the candidate paths that exist
    rar_where,      \* what `where rar.exe` does
    rpc,            \* position of the call
    rar_probed,     \* the candidates consulted so far, in order
    rar_ret         \* the Result the call returned

listVars   == <<chunks, list_out>>
folderVars == <<tree, aes_key, fpc, pak_files, utoc_files, pi, ui,
                result_map, content, opened, handled, origin>>
batchVars  == <<file_paths, batch_key, opc, oi, wpc, wres, results,
                results_lock, progress, progress_lock, printed>>
archiveVars == <<archive_ext, archive_files, extract_out, keep_temp, arch_key,
                 apc, temp_dir, staged, arch_pak_files, arch_utoc_files,
                 api, aui, arch_handled, all_assets, arch_ret>>
callVars   == <<call, ret>>
unpackVars == <<upak, uopts, upc, disk, created, unpacked_files, events, uret>>
rarVars    == <<rar_env, rar_exists, rar_where, rpc, rar_probed, rar_ret>>
vars       == <<listVars, folderVars, batchVars, archiveVars, callVars,
                unpackVars, rarVars>>

-----------------------------------------------------------------------------
(* Bounds of the model.                                                    *)

MaxChunks == 3      \* chunk records per utoc in SpecList
MaxBatch  == 3      \* input paths per batch call
MaxDupTree == 2     \* files in a tree whose paks share a stem
MaxSegs   == 3      \* segments of a path given to to_asset_style_path
MaxUnpackFiles == 2 \* interior paths of the pak given to PakUnpacker::unpack

-----------------------------------------------------------------------------
(* Characters and strings.                                                 *)

\* The characters used, in increasing byte value.
AsciiOrder ==
    <<".", "/", "3",
      "A", "B", "C", "D", "E", "F", "G", "H", "I", "J", "K", "L", "M",
      "N", "O", "P", "Q", "R", "S", "T", "U", "V", "W", "X", "Y", "Z",
      "\\",
      "a", "b", "c", "d", "e", "f", "g", "h", "i", "j", "k", "l", "m",
      "n", "o", "p", "q", "r", "s", "t", "u", "v", "w", "x", "y", "z">>

\* the rank of each character
OrdTable ==
    [c \in {AsciiOrder[i] : i \in 1..Len(AsciiOrder)} |->
        CHOOSE i \in 1..Len(AsciiOrder) : AsciiOrder[i] = c]

Ord(c) == OrdTable[c]

IsUpper(c) == Ord(c) >= Ord("A") /\ Ord(c) <= Ord("Z")

\* char::to_lowercase on the characters above
LowerChar(c) == IF IsUpper(c) THEN AsciiOrder[Ord(c) - Ord("A") + Ord("a")] ELSE c

\* str::to_lowercase
ToLowercase(s) == [i \in 1..Len(s) |-> LowerChar(s[i])]

\* Ord for String: byte-wise lexicographic, a proper prefix first
RECURSIVE StrLess(_, _)
StrLess(a, b) ==
    IF b = <<>> THEN FALSE
    ELSE IF a = <<>> THEN TRUE
    ELSE IF a[1] # b[1] THEN Ord(a[1]) < Ord(b[1])
    ELSE StrLess(Tail(a), Tail(b))

\* Index of the last occurrence of character c in s, 0 when there is none
RECURSIVE LastIndexOf(_, _)
LastIndexOf(s, c) ==
    IF s = <<>> THEN 0
    ELSE IF s[Len(s)] = c THEN Len(s)
    ELSE LastIndexOf(SubSeq(s, 1, Len(s) - 1), c)

\* Option<T>: a sequence of at most one element
None       == <<>>
Some(x)    == <<x>>
IsSome(o)  == o # <<>>
Unwrap(o)  == o[1]

\* Path::components reduced to its normal components: the segments between
\* separators, without the empty ones and without "."
RECURSIVE Components(_)
Components(p) ==
    IF p = <<>> THEN <<>>
    ELSE LET k    == LastIndexOf(p, "/")
             seg  == SubSeq(p, k + 1, Len(p))
             rest == IF k = 0 THEN <<>> ELSE Components(SubSeq(p, 1, k - 1))
         IN  IF seg = <<>> \/ seg = <<".">> THEN rest ELSE Append(rest, seg)

\* Path::file_name: the last component unless it is ".."
FileName(p) ==
    LET cs == Components(p)
    IN  IF cs = <<>> \/ cs[Len(cs)] = <<".", ".">> THEN None ELSE Some(cs[Len(cs)])

\* Path::extension: what follows the last dot of the file name; None when
\* there is no dot or the only dot leads the name
Extension(p) ==
    LET name == FileName(p)
    IN  IF name = None THEN None
        ELSE LET n == Unwrap(name)
                 k == LastIndexOf(n, ".")
             IN  IF k <= 1 THEN None ELSE Some(SubSeq(n, k + 1, Len(n)))

-----------------------------------------------------------------------------
(* UtocLister.                                                             *)

AssetExtensions ==
    { <<"u","a","s","s","e","t">>, <<"u","m","a","p">>, <<"b","n","k">>,
      <<"j","s","o","n">>, <<"w","e","m">>, <<"f","b","x">>, <<"o","b","j">>,
      <<"g","l","b">>, <<"g","l","t","f">>, <<"i","n","i">>, <<"w","a","v">>,
      <<"m","p","3">>, <<"o","g","g">>, <<"u","p","l","u","g","i","n">>,
      <<"u","s","f">> }

\* is_asset_file with the extension compared as written (no lowercasing)
IsAssetFileCaseSensitive(path) ==
    LET e == Extension(path)
    IN  IsSome(e) /\ Unwrap(e) \in AssetExtensions

\* UtocLister::is_asset_file
IsAssetFile(path) ==
    LET e   == Extension(path)
        ext == IF e = None THEN <<>> ELSE ToLowercase(Unwrap(e))
    IN  ext \in AssetExtensions

\* AssetPath::new: wraps the string as it is
AssetPathNew(s) == s

\* Vec::sort on AssetPath (derived Ord on the inner String)
RECURSIVE InsertSorted(_, _)
InsertSorted(x, s) ==
    IF s = <<>> THEN <<x>>
    ELSE IF StrLess(x, s[1]) THEN <<x>> \o s
    ELSE <<s[1]>> \o InsertSorted(x, Tail(s))

RECURSIVE SortPaths(_)
SortPaths(s) ==
    IF s = <<>> THEN <<>> ELSE InsertSorted(s[Len(s)], SortPaths(SubSeq(s, 1, Len(s) - 1)))

\* Vec::dedup: removes consecutive repeated elements
RECURSIVE Dedup(_)
Dedup(s) ==
    IF Len(s) <= 1 THEN s
    ELSE IF s[1] = s[2] THEN Dedup(Tail(s))
    ELSE <<s[1]>> \o Dedup(Tail(s))

\* the loop of UtocLister::list over the chunks: keeps the chunks that carry
\* a path that is an asset file
RECURSIVE CollectAssets(_)
CollectAssets(cs) ==
    IF cs = <<>> THEN <<>>
    ELSE LET c    == cs[Len(cs)]
             rest == CollectAssets(SubSeq(cs, 1, Len(cs) - 1))
         IN  IF IsSome(c.path) /\ IsAssetFile(Unwrap(c.path))
             THEN Append(rest, AssetPathNew(Unwrap(c.path)))
             ELSE rest

\* UtocLister::list, the value returned for the chunk records cs
UtocList(cs) == Dedup(SortPaths(CollectAssets(cs)))

-----------------------------------------------------------------------------
(* Inputs: interior paths, container contents, files.                      *)

PathA      == <<"/","G","a","m","e","/","A",".","u","a","s","s","e","t">>
PathB      == <<"/","G","a","m","e","/","B",".","j","s","o","n">>
PathAUpper == <<"/","G","a","m","e","/","A",".","U","A","S","S","E","T">>
PathTxt    == <<"/","G","a","m","e","/","C",".","t","x","t">>
PathHidden == <<"/","G","a","m","e","/",".","i","n","i">>
PathDotDir == <<"/","G","a",".","m","e","/","u","m","a","p">>

PathPool == {PathA, PathB, PathAUpper, PathTxt, PathHidden, PathDotDir}

\* a chunk record of the IoStore reader; only its optional path is used
Chunk(p) == [path |-> p]

ChunkPool == {Chunk(Some(p)) : p \in PathPool} \cup {Chunk(None)}

SeqsUpTo(S, n) == UNION {[1..k -> S] : k \in 0..n}

\* what the pak reader reports for a pak file: an unreadable container, or
\* the interior path strings in the reader's order
CorruptPak      == [ok |-> FALSE, files |-> <<>>]
PakListing(fs)  == [ok |-> TRUE, files |-> fs]
PakContents ==
    {CorruptPak, PakListing(<<>>), PakListing(<<PathTxt>>),
     PakListing(<<PathB, PathA>>)}

\* what the IoStore reader reports for a utoc file
CorruptUtoc     == [ok |-> FALSE, chunks |-> <<>>]
UtocChunks(cs)  == [ok |-> TRUE, chunks |-> cs]
UtocContents ==
    {CorruptUtoc, UtocChunks(<<>>), UtocChunks(<<Chunk(None)>>),
     UtocChunks(<<Chunk(Some(PathTxt))>>),
     UtocChunks(<<Chunk(Some(PathB)), Chunk(Some(PathA)), Chunk(Some(PathA))>>)}

ExtPak       == <<"p","a","k">>
ExtPakUpper  == <<"P","A","K">>
ExtUtoc      == <<"u","t","o","c">>
ExtTxt       == <<"t","x","t">>

\* a PathBuf: directory, file stem, extension (an Option)
File(d, s, e) == [dir |-> d, stem |-> s, ext |-> e]

\* str::eq_ignore_ascii_case
EqIgnoreAsciiCase(a, b) == ToLowercase(a) = ToLowercase(b)

\* Path::with_extension
WithExtension(f, e) == [f EXCEPT !.ext = Some(e)]

NoKey    == "NoKey"
ValidKey == "0x0123456789abcdef0123456789abcdef0123456789abcdef0123456789abcdef"
AesKeyArgs == {NoKey, ValidKey, "zz"}

\* str::parse::<AesKey>: succeeds on a well-formed 32-byte key only
ParsesAsAesKey(k) == k = ValidKey

-----------------------------------------------------------------------------
(* Results and the container operations.                                   *)

Ok(v)  == [ok |-> TRUE,  val |-> v,    err |-> "none"]
Err(k) == [ok |-> FALSE, val |-> <<>>, err |-> k]

\* a result slot not yet filled: the call has not returned
Pending == Err("pending")

\* files.into_iter().map(|path| AssetPath::new(path)).collect()
ToAssetPaths(fs) == [i \in 1..Len(fs) |-> AssetPathNew(fs[i])]

\* the AES key check of the pak and utoc operations: a key was given and
\* does not parse
KeyRejected(key) == key # NoKey /\ ~ParsesAsAesKey(key)

\* Each operation below returns [res, opens]: the Result, and whether the
\* container file was opened on the way.

\* Unpacker::unpack_pak / PakUnpacker::unpack: the asset paths in the
\* reader's order
UnpackPak(exists, key, c) ==
    IF ~exists THEN [res |-> Err("FileNotFound"), opens |-> FALSE]
    ELSE IF KeyRejected(key) THEN [res |-> Err("InvalidAesKey"), opens |-> FALSE]
    ELSE IF ~c.ok THEN [res |-> Err("PakError"), opens |-> TRUE]
    ELSE [res |-> Ok(ToAssetPaths(c.files)), opens |-> TRUE]

\* a get_pak_file_list that parses the key before it looks for the file
GetPakFileListKeyFirst(exists, key, c) ==
    IF KeyRejected(key) THEN [res |-> Err("InvalidAesKey"), opens |-> FALSE]
    ELSE IF ~exists THEN [res |-> Err("FileNotFound"), opens |-> FALSE]
    ELSE IF ~c.ok THEN [res |-> Err("PakError"), opens |-> TRUE]
    ELSE [res |-> Ok(ToAssetPaths(c.files)), opens |-> TRUE]

\* Unpacker::get_pak_file_list
GetPakFileList(exists, key, c) ==
    IF ~exists THEN [res |-> Err("FileNotFound"), opens |-> FALSE]
    ELSE IF KeyRejected(key) THEN [res |-> Err("InvalidAesKey"), opens |-> FALSE]
    ELSE IF ~c.ok THEN [res |-> Err("PakError"), opens |-> TRUE]
    ELSE [res |-> Ok(ToAssetPaths(c.files)), opens |-> TRUE]

\* Unpacker::list_utoc / UtocLister::list
ListUtoc(exists, key, c) ==
    IF ~exists THEN [res |-> Err("FileNotFound"), opens |-> FALSE]
    ELSE IF KeyRejected(key) THEN [res |-> Err("InvalidAesKey"), opens |-> FALSE]
    ELSE IF ~c.ok THEN [res |-> Err("UtocError"), opens |-> TRUE]
    ELSE [res |-> Ok(UtocList(c.chunks)), opens |-> TRUE]

\* HashMap::insert
Insert(m, k, v) == [x \in DOMAIN m \cup {k} |-> IF x = k THEN v ELSE m[x]]

EmptyMap == [x \in {} |-> <<>>]

\* format!("{}{}", name, suffix): a result-map key
FormatKey(name, suffix) == [stem |-> name, suffix |-> suffix]

\* all orderings of a finite set, as sequences
Orderings(S) ==
    {q \in [1..Cardinality(S) -> S] : \A i, j \in 1..Cardinality(S) : q[i] = q[j] => i = j}

-----------------------------------------------------------------------------
(* UtocLister::list on its own.                                            *)

FolderParked ==
    /\ tree = {} /\ aes_key = NoKey /\ fpc = "parked"
    /\ pak_files = <<>> /\ utoc_files = <<>> /\ pi = 1 /\ ui = 1
    /\ result_map = EmptyMap /\ content = EmptyMap /\ opened = {}
    /\ handled = EmptyMap /\ origin = EmptyMap

BatchParked ==
    /\ file_paths = <<>> /\ batch_key = NoKey /\ opc = "parked" /\ oi = 1
    /\ wpc = <<>> /\ wres = <<>> /\ results = EmptyMap /\ results_lock = 0
    /\ progress = 0 /\ progress_lock = 0 /\ printed = <<>>

ListParked == chunks = <<>> /\ list_out = Some(<<>>)

ArchiveParked ==
    /\ archive_ext = None /\ archive_files = {} /\ extract_out = "ok"
    /\ keep_temp = FALSE /\ arch_key = NoKey /\ apc = "parked"
    /\ temp_dir = "none" /\ staged = {}
    /\ arch_pak_files = <<>> /\ arch_utoc_files = <<>> /\ api = 1 /\ aui = 1
    /\ arch_handled = EmptyMap /\ all_assets = <<>> /\ arch_ret = Pending

CallParked == call = [op |-> "none"] /\ ret = Pending

UnpackParked ==
    /\ upak = [exists |-> FALSE, content |-> CorruptPak]
    /\ uopts = "none" /\ upc = "parked"
    /\ disk = EmptyMap /\ created = {} /\ unpacked_files = <<>>
    /\ events = <<>> /\ uret = Pending

RarParked ==
    /\ rar_env = None /\ rar_exists = {} /\ rar_where = "none"
    /\ rpc = "parked" /\ rar_probed = <<>> /\ rar_ret = Pending

InitList ==
    /\ chunks \in SeqsUpTo(ChunkPool, MaxChunks)
    /\ list_out = None
    /\ FolderParked /\ BatchParked /\ ArchiveParked /\ CallParked
    /\ UnpackParked /\ RarParked

\* ProgressInfo; the message is reduced to its leading word
ProgressInfo(pct, msg, done, total) ==
    [percentage |-> pct, message |-> msg, processed |-> done, total |-> total]

\* the ProgressInfo values UtocLister::list reports for the chunk records
\* cs; the percentage of the loop is 60 + ((processed / len) * 35.0) as u8
ListEvents(cs) ==
    <<ProgressInfo(0, "Opening", 0, 1), ProgressInfo(10, "Parsing", 0, 1),
      ProgressInfo(30, "Extracting", 0, 1), ProgressInfo(60, "Found", 0, Len(cs))>>
    \o [i \in 1..Len(cs) |->
          ProgressInfo(60 + ((i * 35) \div Len(cs)), "Processing", i, Len(cs))]
    \o <<ProgressInfo(100, "Completed", Len(cs), Len(cs))>>

\* one call of UtocLister::list on an existing, readable utoc, with a
\* progress callback that records what it is given
ListCall ==
    /\ list_out = None
    /\ list_out' = Some(UtocList(chunks))
    /\ events' = ListEvents(chunks)
    /\ UNCHANGED <<upak, uopts, upc, disk, created, unpacked_files, uret>>
    /\ UNCHANGED <<chunks, folderVars, batchVars,
                   archiveVars, callVars, rarVars>>

NextList == ListCall

SpecList == InitList /\ [][NextList]_vars

\* The chunk paths that end in <name char>.<ext> with ext, lowercased, in
\* the allow-list: the extension test stated on the path's suffix.
HasAllowedExtension(p) ==
    \E e \in AssetExtensions :
        LET n == Len(e)
        IN  /\ Len(p) >= n + 2
            /\ ToLowercase(SubSeq(p, Len(p) - n + 1, Len(p))) = e
            /\ p[Len(p) - n] = "."
            /\ p[Len(p) - n - 1] # "/"

AssetChunkPaths ==
    {Unwrap(chunks[i].path) :
        i \in {j \in 1..Len(chunks) :
                 IsSome(chunks[j].path) /\ HasAllowedExtension(Unwrap(chunks[j].path))}}

\* C7: UtocLister::list returns exactly the paths of the chunks that carry a
\* path with an allow-listed extension (case-insensitive), strictly
\* increasing in byte order (sorted, no duplicates), and sorting and
\* deduplicating the result again leaves it unchanged.
C7_ListIsSortedAssetSet ==
    IsSome(list_out) =>
        LET r == Unwrap(list_out)
        IN  /\ {r[i] : i \in 1..Len(r)} = AssetChunkPaths
            /\ \A i \in 1..(Len(r) - 1) : StrLess(r[i], r[i + 1])
            /\ Dedup(SortPaths(r)) = r

\* C7 witness: the chunks B.json, A.uasset, A.uasset list as A.uasset, B.json
C7_Witness ==
    /\ chunks = <<Chunk(Some(PathB)), Chunk(Some(PathA)), Chunk(Some(PathA))>>
    /\ list_out = Some(<<PathA, PathB>>)

-----------------------------------------------------------------------------
(* Folder flow: PyUnpacker::extract_pak_asset_map_from_folder.             *)

CandidateFiles ==
    { File("a", "Main", Some(ExtPak)),  File("b", "Main", Some(ExtPak)),
      File("a", "Main", Some(ExtPakUpper)),
      File("a", "Main", Some(ExtUtoc)),
      File("a", "Solo", Some(ExtPak)),
      File("b", "main", Some(ExtUtoc)),
      File("a", "readme", Some(ExtTxt)) }

\* the walk's tests on a file's extension
IsPakFile(f)  == IsSome(f.ext) /\ EqIgnoreAsciiCase(Unwrap(f.ext), ExtPak)
IsUtocFile(f) == IsSome(f.ext) /\ EqIgnoreAsciiCase(Unwrap(f.ext), ExtUtoc)

\* the tree holds at most one pak and at most one utoc of a stem
UniqueUnits(t) ==
    \A f, g \in t :
        (f # g /\ f.stem = g.stem) =>
            ~((IsPakFile(f) /\ IsPakFile(g)) \/ (IsUtocFile(f) /\ IsUtocFile(g)))

\* the trees walked: any tree with one file per stem and kind, and the
\* small trees in which a stem names several paks
Trees ==
    {t \in SUBSET CandidateFiles : UniqueUnits(t) \/ Cardinality(t) <= MaxDupTree}

\* file_stem().and_then(|s| s.to_str()).unwrap_or("unknown")
FileStem(f) == f.stem

\* the has_utoc test of the pak loop, never true
HasUtocNever(pak_name, utocs) == FALSE

\* the has_utoc test of the pak loop
HasUtoc(pak_name, utocs) ==
    \E i \in 1..Len(utocs) : FileStem(utocs[i]) = pak_name

\* Path::exists
Exists(f) == f \in tree

\* what a reader finds in file f: as found before, else the fresh draw c
ContentOf(f, c) == IF f \in DOMAIN content THEN content[f] ELSE c

InitFolder ==
    /\ tree \in Trees
    /\ aes_key \in AesKeyArgs
    /\ fpc = "walk"
    /\ pak_files = <<>> /\ utoc_files = <<>> /\ pi = 1 /\ ui = 1
    /\ result_map = EmptyMap /\ content = EmptyMap /\ opened = {}
    /\ handled = EmptyMap /\ origin = EmptyMap
    /\ ListParked /\ BatchParked /\ ArchiveParked /\ CallParked
    /\ UnpackParked /\ RarParked

\* lines 95-112: the walk fills pak_files and utoc_files, in directory order
FolderWalk ==
    /\ fpc = "walk"
    /\ pak_files'  \in Orderings({f \in tree : IsPakFile(f)})
    /\ utoc_files' \in Orderings({f \in tree : IsUtocFile(f) /\ ~IsPakFile(f)})
    /\ fpc' = "run"
    /\ UNCHANGED <<tree, aes_key, pi, ui, result_map, content, opened,
                   handled, origin, listVars, batchVars,
                   archiveVars, callVars,
                   unpackVars, rarVars>>

\* the key of the entry the solo-pak branch writes
SoloPakKey(pak_name) == FormatKey(pak_name, ".pak")

\* the key of the entries the utoc loop writes (listing and pak fallback)
UtocKey(utoc_name) == FormatKey(utoc_name, ".utoc")

\* `if !asset_paths.is_empty()` left out: any successful list is stored
ShouldInsertAlways(res) == res.ok

\* the test before each result_map.insert: a successful, non-empty list
ShouldInsert(res) == res.ok /\ res.val # <<>>

\* lines 116-160: one iteration of the pak loop
FolderPakStep ==
    /\ fpc = "run" /\ pi <= Len(pak_files)
    /\ LET pak_path == pak_files[pi]
           pak_name == FileStem(pak_path)
       IN  IF HasUtoc(pak_name, utoc_files)
           THEN /\ handled' = Insert(handled, pak_path, "bundle_pak_skipped")
                /\ pi' = pi + 1
                /\ UNCHANGED <<fpc, result_map, content, opened, origin>>
           ELSE \/ \* tempfile::tempdir() fails: the call returns the error
                   /\ fpc' = "failed"
                   /\ handled' = Insert(handled, pak_path, "solo_pak")
                   /\ UNCHANGED <<pi, result_map, content, opened, origin>>
                \/ \E c \in PakContents :
                    LET cc == ContentOf(pak_path, c)
                        r  == UnpackPak(Exists(pak_path), aes_key, cc)
                        ins == ShouldInsert(r.res)
                    IN  /\ opened'  = IF r.opens THEN opened \cup {pak_path} ELSE opened
                        /\ content' = IF r.opens THEN Insert(content, pak_path, cc) ELSE content
                        /\ result_map' =
                               IF ins THEN Insert(result_map, SoloPakKey(pak_name), r.res.val)
                               ELSE result_map
                        /\ origin' =
                               IF ins THEN Insert(origin, SoloPakKey(pak_name), pak_path)
                               ELSE origin
                        /\ handled' = Insert(handled, pak_path, "solo_pak")
                        /\ pi' = pi + 1
                        /\ fpc' = fpc
    /\ UNCHANGED <<tree, aes_key, pak_files, utoc_files, ui, listVars, batchVars,
                   archiveVars, callVars,
                   unpackVars, rarVars>>

\* lines 169-222: one iteration of the utoc loop, the pak fallback included
FolderUtocStep ==
    /\ fpc = "run" /\ pi > Len(pak_files) /\ ui <= Len(utoc_files)
    /\ LET utoc_path == utoc_files[ui]
           utoc_name == FileStem(utoc_path)
           pak_path  == WithExtension(utoc_path, ExtPak)
       IN  \E cu \in UtocContents, cp \in PakContents :
               LET ccu == ContentOf(utoc_path, cu)
                   ru  == ListUtoc(Exists(utoc_path), aes_key, ccu)
                   fallback == ru.res.ok /\ ru.res.val = <<>> /\ Exists(pak_path)
                   ccp == ContentOf(pak_path, cp)
                   rp  == GetPakFileList(Exists(pak_path), aes_key, ccp)
                   opensPak == fallback /\ rp.opens
                   insUtoc  == ShouldInsert(ru.res)
                   insPak   == ~insUtoc /\ fallback /\ ShouldInsert(rp.res)
               IN  /\ opened' = opened
                                  \cup (IF ru.opens THEN {utoc_path} ELSE {})
                                  \cup (IF opensPak THEN {pak_path} ELSE {})
                   /\ content' =
                          LET c1 == IF ru.opens THEN Insert(content, utoc_path, ccu)
                                    ELSE content
                          IN  IF opensPak THEN Insert(c1, pak_path, ccp) ELSE c1
                   /\ result_map' =
                          IF insUtoc THEN Insert(result_map, UtocKey(utoc_name), ru.res.val)
                          ELSE IF insPak THEN Insert(result_map, UtocKey(utoc_name), rp.res.val)
                          ELSE result_map
                   /\ origin' =
                          IF insUtoc THEN Insert(origin, UtocKey(utoc_name), utoc_path)
                          ELSE IF insPak THEN Insert(origin, UtocKey(utoc_name), pak_path)
                          ELSE origin
    /\ handled' = Insert(handled, utoc_files[ui], "utoc")
    /\ ui' = ui + 1
    /\ UNCHANGED <<tree, aes_key, fpc, pak_files, utoc_files, pi, listVars, batchVars,
                   archiveVars, callVars,
                   unpackVars, rarVars>>

\* line 224: Ok(result_map)
FolderReturn ==
    /\ fpc = "run" /\ pi > Len(pak_files) /\ ui > Len(utoc_files)
    /\ fpc' = "returned"
    /\ UNCHANGED <<tree, aes_key, pak_files, utoc_files, pi, ui, result_map,
                   content, opened, handled, origin, listVars, batchVars,
                   archiveVars, callVars,
                   unpackVars, rarVars>>

NextFolder == FolderWalk \/ FolderPakStep \/ FolderUtocStep \/ FolderReturn

SpecFolder == InitFolder /\ [][NextFolder]_vars

-----------------------------------------------------------------------------
(* Claims about the folder flow.                                           *)

Containers == {f \in tree : IsPakFile(f) \/ IsUtocFile(f)}
PakStems   == {FileStem(f) : f \in {g \in tree : IsPakFile(g)}}
UtocStems  == {FileStem(f) : f \in {g \in tree : IsUtocFile(g)}}

\* the bundle pairs of the tree: a pak and a utoc with the same stem
Pairs ==
    {pr \in tree \X tree :
        IsPakFile(pr[1]) /\ IsUtocFile(pr[2]) /\ FileStem(pr[1]) = FileStem(pr[2])}

\* the utoc listing of u has run and succeeded
UtocListed(u) == u \in DOMAIN content /\ content[u].ok
\* the asset list it yielded
UtocAssets(u) == UtocList(content[u].chunks)
\* the pak p has been read successfully
PakListed(p)  == p \in DOMAIN content /\ content[p].ok

EntriesOf(stem) == {k \in DOMAIN result_map : k.stem = stem}

StrictlySorted(r) == \A i \in 1..(Len(r) - 1) : StrLess(r[i], r[i + 1])

C2_EmptyUtocFallsBackToPak ==
    \A pr \in Pairs :
        LET p == pr[1]
            u == pr[2]
        IN  (UtocListed(u) /\ UtocAssets(u) = <<>>) =>
                /\ p \in DOMAIN content
                /\ (content[p].ok /\ content[p].files # <<>>) =>
                       \E k \in EntriesOf(FileStem(u)) :
                           result_map[k] = ToAssetPaths(content[p].files)

\* the case of C3: the utoc listing of a pair is empty and the pak fallback
\* listing is empty too
BothEmpty(p, u) ==
    /\ UtocListed(u) /\ UtocAssets(u) = <<>>
    /\ PakListed(p) /\ content[p].files = <<>>

ExpectedBranch(f) ==
    IF IsPakFile(f)
    THEN IF FileStem(f) \in UtocStems THEN "bundle_pak_skipped" ELSE "solo_pak"
    ELSE "utoc"

\* C4: classification by stem is a partition acted on by the loops: a pak
\* whose stem (compared as written) also names a utoc is skipped as the pak
\* of a bundle pair, any other pak is unpacked as a solo pak, every utoc is
\* listed; every key of the result map carries the suffix of its stem's
\* class, a stem has at most one entry in the result map, and at the return
\* every container has been handled.
C4_ClassificationIsPartition ==
    /\ DOMAIN handled \subseteq Containers
    /\ \A f \in DOMAIN handled : handled[f] = ExpectedBranch(f)
    /\ \A k \in DOMAIN result_map :
           /\ k.suffix \in {".pak", ".utoc"}
           /\ k.suffix = ".pak"  => k.stem \in PakStems \ UtocStems
           /\ k.suffix = ".utoc" => k.stem \in UtocStems
    /\ \A st \in PakStems \cup UtocStems : Cardinality(EntriesOf(st)) <= 1
    /\ fpc = "returned" => DOMAIN handled = Containers

\* C4 witness: a returned run over a bundle pair, a solo pak and a solo utoc
\* (Main.pak + Main.utoc, Solo.pak, main.utoc), with an entry for each
C4_Witness ==
    /\ fpc = "returned"
    /\ {"Main", "Solo"} \subseteq PakStems
    /\ {"Main", "main"} \subseteq UtocStems
    /\ {UtocKey("Main"), SoloPakKey("Solo"), UtocKey("main")} \subseteq DOMAIN result_map

\* C5 as claimed: every key is the stem of the file the list was read from
\* plus the suffix of that file's container kind.
C5_KeySuffixReflectsSource ==
    \A k \in DOMAIN result_map :
        /\ k.stem = FileStem(origin[k])
        /\ k.suffix = IF IsPakFile(origin[k]) THEN ".pak" ELSE ".utoc"

\* C6 as claimed: after the run every stored list is sorted and free of
\* duplicates.
C6_StoredListsSorted ==
    fpc = "returned" => \A k \in DOMAIN result_map : StrictlySorted(result_map[k])

-----------------------------------------------------------------------------
(* Batch flow: process_multiple_files.                                     *)

BatchCandidates ==
    { File("a", "Main", Some(ExtPak)), File("a", "Main", Some(ExtUtoc)),
      File("a", "Solo", Some(ExtPak)), File("a", "readme", Some(ExtTxt)) }

\* lists of distinct paths, at most MaxBatch of them
BatchInputs ==
    {q \in SeqsUpTo(BatchCandidates, MaxBatch) :
        \A i, j \in 1..Len(q) : q[i] = q[j] => i = j}

Workers == 1..Len(file_paths)

\* what the readers can report for the files of a batch
BatchPakContents  == {CorruptPak, PakListing(<<PathB, PathA>>)}
BatchUtocContents ==
    {CorruptUtoc, UtocChunks(<<Chunk(Some(PathB)), Chunk(Some(PathA)), Chunk(Some(PathA))>>)}

\* with_aes_key(aes_key.unwrap_or_default()): the options always carry a
\* key string, the empty one when the caller gave none
OptionKey(k) == IF k = NoKey THEN "" ELSE k

\* path.extension().and_then(|e| e.to_str()).unwrap_or("")
ExtOrEmpty(f) == IF IsSome(f.ext) THEN Unwrap(f.ext) ELSE <<>>

\* the key a worker inserts under: the bare file stem
BatchKey(f) == FormatKey(FileStem(f), "")

InitBatch ==
    /\ file_paths \in BatchInputs
    /\ batch_key \in AesKeyArgs
    /\ opc = "spawn" /\ oi = 1
    /\ wpc  = [w \in 1..Len(file_paths) |-> "unspawned"]
    /\ wres = [w \in 1..Len(file_paths) |-> Pending]
    /\ results = EmptyMap /\ results_lock = 0
    /\ progress = 0 /\ progress_lock = 0 /\ printed = <<>>
    /\ ListParked /\ FolderParked /\ ArchiveParked /\ CallParked
    /\ UnpackParked /\ RarParked

\* lines 257-311: s.spawn for the next path
OrchSpawn ==
    /\ opc = "spawn" /\ oi <= Len(file_paths)
    /\ wpc' = [wpc EXCEPT ![oi] = "extract"]
    /\ oi' = oi + 1
    /\ UNCHANGED <<file_paths, batch_key, opc, wres, results, results_lock,
                   progress, progress_lock, printed, listVars, folderVars,
                   archiveVars, callVars,
                   unpackVars, rarVars>>

\* line 311: collect() is complete, the join loop starts
OrchCollected ==
    /\ opc = "spawn" /\ oi > Len(file_paths)
    /\ opc' = "join" /\ oi' = 1
    /\ UNCHANGED <<file_paths, batch_key, wpc, wres, results, results_lock,
                   progress, progress_lock, printed, listVars, folderVars,
                   archiveVars, callVars,
                   unpackVars, rarVars>>

\* a join that does not wait for the thread
JoinReadyAlways(w) == TRUE

\* a join that never returns
JoinReadyNever(w) == FALSE

\* handle.join() returns once the thread has finished
JoinReady(w) == wpc[w] = "done"

\* lines 314-316: handle.join().unwrap() on the next handle
OrchJoin ==
    /\ opc = "join" /\ oi <= Len(file_paths)
    /\ JoinReady(oi)
    /\ oi' = oi + 1
    /\ UNCHANGED <<file_paths, batch_key, opc, wpc, wres, results, results_lock,
                   progress, progress_lock, printed, listVars, folderVars,
                   archiveVars, callVars,
                   unpackVars, rarVars>>

\* lines 317-319: the scope ends, Ok(map) is returned
OrchReturn ==
    /\ opc = "join" /\ oi > Len(file_paths)
    /\ opc' = "returned"
    /\ UNCHANGED <<file_paths, batch_key, oi, wpc, wres, results, results_lock,
                   progress, progress_lock, printed, listVars, folderVars,
                   archiveVars, callVars,
                   unpackVars, rarVars>>

\* where a worker goes after its extraction: an Err result also inserts
AfterExtractAlwaysInsert(res) == "lock_results"

\* where a worker goes after its extraction: Ok takes the results lock, Err
\* and an unsupported extension go on to the progress update
AfterExtract(res) == IF res.ok THEN "lock_results" ELSE "lock_progress"

\* lines 264-304 up to the lock: the match on the extension and the
\* extraction call
WorkerExtract(w) ==
    /\ wpc[w] = "extract"
    /\ LET f   == file_paths[w]
           ext == ExtOrEmpty(f)
       IN  \E res \in
                  IF ext = ExtPak
                  THEN {UnpackPak(ex, OptionKey(batch_key), c).res :
                            ex \in BOOLEAN, c \in BatchPakContents}
                  ELSE IF ext = ExtUtoc
                  THEN {ListUtoc(ex, OptionKey(batch_key), c).res :
                            ex \in BOOLEAN, c \in BatchUtocContents}
                  ELSE {Err("Unsupported")} :
               /\ wres' = [wres EXCEPT ![w] = res]
               /\ wpc'  = [wpc EXCEPT ![w] = AfterExtract(res)]
    /\ UNCHANGED <<file_paths, batch_key, opc, oi, results, results_lock,
                   progress, progress_lock, printed, listVars, folderVars,
                   archiveVars, callVars,
                   unpackVars, rarVars>>

\* a mutex that never makes a thread wait
MutexFreeAlways(owner) == TRUE

\* Mutex::lock returns once no thread holds the guard
MutexFree(owner) == owner = 0

\* lines 278, 293: results.lock().unwrap()
WorkerLockResults(w) ==
    /\ wpc[w] = "lock_results"
    /\ MutexFree(results_lock)
    /\ results_lock' = w
    /\ wpc' = [wpc EXCEPT ![w] = "insert"]
    /\ UNCHANGED <<file_paths, batch_key, opc, oi, wres, results,
                   progress, progress_lock, printed, listVars, folderVars,
                   archiveVars, callVars,
                   unpackVars, rarVars>>

\* lines 279-280, 294-295: results.insert(stem, assets); the guard drops
WorkerInsert(w) ==
    /\ wpc[w] = "insert"
    /\ results' = Insert(results, BatchKey(file_paths[w]), wres[w].val)
    /\ results_lock' = 0
    /\ wpc' = [wpc EXCEPT ![w] = "lock_progress"]
    /\ UNCHANGED <<file_paths, batch_key, opc, oi, wres,
                   progress, progress_lock, printed, listVars, folderVars,
                   archiveVars, callVars,
                   unpackVars, rarVars>>

\* line 307: progress.lock().unwrap()
WorkerLockProgress(w) ==
    /\ wpc[w] = "lock_progress"
    /\ MutexFree(progress_lock)
    /\ progress_lock' = w
    /\ wpc' = [wpc EXCEPT ![w] = "increment"]
    /\ UNCHANGED <<file_paths, batch_key, opc, oi, wres, results, results_lock,
                   progress, printed, listVars, folderVars,
                   archiveVars, callVars,
                   unpackVars, rarVars>>

\* line 308: *progress += 1
WorkerIncrement(w) ==
    /\ wpc[w] = "increment"
    /\ progress' = progress + 1
    /\ wpc' = [wpc EXCEPT ![w] = "print"]
    /\ UNCHANGED <<file_paths, batch_key, opc, oi, wres, results, results_lock,
                   progress_lock, printed, listVars, folderVars,
                   archiveVars, callVars,
                   unpackVars, rarVars>>

\* lines 309-310: println!("Progress: ..."), then the closure ends and the
\* guard drops
WorkerPrint(w) ==
    /\ wpc[w] = "print"
    /\ printed' = Append(printed, progress)
    /\ progress_lock' = 0
    /\ wpc' = [wpc EXCEPT ![w] = "done"]
    /\ UNCHANGED <<file_paths, batch_key, opc, oi, wres, results, results_lock,
                   progress, listVars, folderVars,
                   archiveVars, callVars,
                   unpackVars, rarVars>>

NextBatch ==
    \/ OrchSpawn \/ OrchCollected \/ OrchJoin \/ OrchReturn
    \/ \E w \in Workers :
           \/ WorkerExtract(w) \/ WorkerLockResults(w) \/ WorkerInsert(w)
           \/ WorkerLockProgress(w) \/ WorkerIncrement(w) \/ WorkerPrint(w)

SpecBatch == InitBatch /\ [][NextBatch]_vars

\* the steps of the thread spawned for file_paths[w] after its extraction
\* call: the two locks, the insert, the increment and the print
WorkerSyncStep(w) ==
    /\ w \in Workers
    /\ \/ WorkerLockResults(w) \/ WorkerInsert(w)
       \/ WorkerLockProgress(w) \/ WorkerIncrement(w) \/ WorkerPrint(w)

\* the thread spawned for file_paths[w] is in its extraction call
Extracting(w) == w \in Workers /\ wpc[w] = "extract"

\* the steps of the calling thread
OrchStep == OrchSpawn \/ OrchCollected \/ OrchJoin \/ OrchReturn

\* the batch under a scheduler that does not pass over for ever a thread
\* that can take its next step, with extraction calls that return
SpecBatchFair ==
    /\ SpecBatch
    /\ WF_vars(OrchStep)
    /\ \A w \in 1..MaxBatch : WF_vars(WorkerSyncStep(w))
    /\ \A w \in 1..MaxBatch : []<>(~Extracting(w))

-----------------------------------------------------------------------------
(* Claims about the batch flow.                                            *)

Returned  == opc = "returned"
Succeeded == {w \in Workers : wres[w].ok}
Failed    == {w \in Workers : wpc[w] # "unspawned" /\ wpc[w] # "extract" /\ ~wres[w].ok}
KeyOf(w)  == BatchKey(file_paths[w])

\* some thread of the batch can take its next step
BatchCanStep ==
    \/ opc = "spawn"
    \/ opc = "join" /\ (oi > Len(file_paths) \/ wpc[oi] = "done")
    \/ \E w \in Workers :
           \/ wpc[w] \in {"extract", "insert", "increment", "print"}
           \/ wpc[w] = "lock_results" /\ results_lock = 0
           \/ wpc[w] = "lock_progress" /\ progress_lock = 0

\* C8: a unit whose extraction fails stops nothing: the batch still moves
\* on to its return, and the returned map holds exactly the entries the
\* succeeded units inserted, each one the list of a succeeded unit; a failed
\* unit has put nothing into it.
C8_FailedUnitContributesNothing ==
    /\ (~Returned) => BatchCanStep
    /\ Returned =>
          /\ DOMAIN results = {KeyOf(w) : w \in Succeeded}
          /\ \A k \in DOMAIN results :
                 \E w \in Succeeded : KeyOf(w) = k /\ results[k] = wres[w].val

\* a batch of three has returned, its second unit failed, the first and the
\* third are in the map and the second is not
C8_Witness ==
    /\ Returned /\ Len(file_paths) = 3
    /\ Failed = {2} /\ Succeeded = {1, 3}
    /\ KeyOf(1) \in DOMAIN results /\ KeyOf(3) \in DOMAIN results
    /\ KeyOf(2) \notin DOMAIN results

\* C9: the orchestrator returns only after every worker has finished: at
\* the return no worker is anywhere but at its end, no lock is held, every
\* unit has been counted, and every succeeded unit's insert has been made.
C9_ReturnAfterAllWorkersDone ==
    Returned =>
        /\ \A w \in Workers : wpc[w] = "done"
        /\ results_lock = 0 /\ progress_lock = 0
        /\ progress = Len(file_paths)
        /\ \A w \in Succeeded : KeyOf(w) \in DOMAIN results

\* a batch of several units has returned with an entry in its map
C9_Witness ==
    /\ Returned /\ Len(file_paths) >= 2
    /\ Cardinality(Succeeded) >= 2
    /\ DOMAIN results # {}

\* C10: no worker's entry is overwritten by another: at the return every
\* succeeded unit finds its own list under its key.
C10_NoEntryOverwritten ==
    Returned => \A w \in Succeeded : results[KeyOf(w)] = wres[w].val

\* the units whose progress update has been made
Counted == {w \in Workers : wpc[w] \in {"print", "done"}}

\* C11: the processed-counter is incremented exactly once per unit, after
\* the unit's extraction and insert are over, whatever their outcome; the
\* progress values printed are 1, 2, ... in this order, each printed once,
\* under every interleaving; at the return the counter is the number of
\* units and the values printed are 1..total.
C11_ProgressCountsEachUnitOnce ==
    /\ progress = Cardinality(Counted)
    /\ \A w \in Counted : wres[w] # Pending
    /\ \A i \in 1..Len(printed) : printed[i] = i
    /\ Len(printed) = Cardinality({w \in Workers : wpc[w] = "done"})
    /\ Returned => progress = Len(file_paths) /\ Len(printed) = Len(file_paths)

\* a batch of three units, one succeeded, one failed and one of an
\* unsupported type, has returned with the counter at 3 and 1, 2, 3 printed
C11_Witness ==
    /\ Returned /\ Len(file_paths) = 3
    /\ \E u, v, w \in Workers :
           /\ wres[u].ok
           /\ wres[v].err = "PakError"
           /\ wres[w].err = "Unsupported"
    /\ progress = 3 /\ printed = <<1, 2, 3>>

\* C25 as claimed: a worker holds the result-map lock only for its insert
\* and the progress lock only for its increment, so that nothing is printed
\* under a lock, and it never holds both.
C25_LocksHeldOnlyForUpdate ==
    \A w \in Workers :
        /\ results_lock = w => wpc[w] = "insert"
        /\ progress_lock = w => wpc[w] = "increment"
        /\ ~(results_lock = w /\ progress_lock = w)

\* C27: under fair scheduling every worker gets through its locks and
\* finishes, and the orchestrator returns.
C27_BatchTerminates ==
    <>(Returned /\ \A w \in Workers : wpc[w] = "done")

\* a batch of MaxBatch units that all took both locks has returned
C27_Witness ==
    /\ Returned /\ Len(file_paths) = 3
    /\ Cardinality(Succeeded) = 3 /\ Cardinality(DOMAIN results) >= 2
    /\ results_lock = 0 /\ progress_lock = 0

-----------------------------------------------------------------------------
(* Archive flow: Unpacker::extract_asset_paths_from_archive.               *)

ExtZip      == <<"z","i","p">>
ExtZipUpper == <<"Z","I","P">>
ExtRar      == <<"r","a","r">>
ExtTar      == <<"t","a","r">>
ExtUtocMixed == <<"U","t","o","c">>

\* the extensions archive_path can have: none, or one of these
ArchiveExts == {None, Some(ExtZip), Some(ExtZipUpper), Some(ExtRar), Some(ExtTar)}

\* the files an archive can pack
ArchiveCandidates ==
    { File("a", "Main", Some(ExtPak)), File("a", "Main", Some(ExtUtoc)),
      File("a", "Solo", Some(ExtPak)), File("a", "Up", Some(ExtPakUpper)),
      File("b", "Other", Some(ExtUtocMixed)), File("a", "readme", Some(ExtTxt)) }

\* how staging can end: all entries written, the archive (or the rar tool)
\* cannot be opened, or an entry fails after some were written
ExtractOutcomes == {"ok", "cannot_open", "fails_midway"}

\* Unpacker::detect_archive_type
DetectArchiveType(ext) ==
    LET extension == ToLowercase(IF IsSome(ext) THEN Unwrap(ext) ELSE <<>>)
    IN  IF extension = ExtZip THEN Ok("Zip")
        ELSE IF extension = ExtRar THEN Ok("Rar")
        ELSE Err("InvalidArgument")

\* the filters of the two walks: ext == "pak", ext == "utoc"
IsPakExact(f)  == f.ext = Some(ExtPak)
IsUtocExact(f) == f.ext = Some(ExtUtoc)

\* a TempDir whose drop leaves the directory in place
DropTempDirLeaks(t) == t

\* TempDir's drop: the directory and what is in it are removed
DropTempDir(t) == IF t = "live" THEN "deleted" ELSE t

\* what is left in the scratch directory once the handle has been dropped
AfterDrop(t, fs) == IF DropTempDir(t) = "deleted" THEN {} ELSE fs

InitArchive ==
    /\ archive_ext \in ArchiveExts
    /\ archive_files \in SUBSET ArchiveCandidates
    /\ extract_out \in ExtractOutcomes
    /\ keep_temp \in BOOLEAN
    /\ arch_key \in AesKeyArgs
    /\ apc = "tempdir"
    /\ temp_dir = "none" /\ staged = {}
    /\ arch_pak_files = <<>> /\ arch_utoc_files = <<>> /\ api = 1 /\ aui = 1
    /\ arch_handled = EmptyMap /\ all_assets = <<>> /\ arch_ret = Pending
    /\ ListParked /\ FolderParked /\ BatchParked /\ CallParked
    /\ UnpackParked /\ RarParked

\* lines 138-140: TempDir::new(), or its failure returned with `?`
ArchiveTempDir ==
    /\ apc = "tempdir"
    /\ \/ /\ temp_dir' = "live" /\ apc' = "detect" /\ arch_ret' = arch_ret
       \/ /\ temp_dir' = "none" /\ apc' = "returned" /\ arch_ret' = Err("IoError")
    /\ UNCHANGED <<archive_ext, archive_files, extract_out, keep_temp, arch_key,
                   staged, arch_pak_files, arch_utoc_files, api, aui,
                   arch_handled, all_assets,
                   listVars, folderVars, batchVars, callVars,
                   unpackVars, rarVars>>

\* lines 143-144: detect_archive_type(archive_path)?
ArchiveDetect ==
    /\ apc = "detect"
    /\ LET t == DetectArchiveType(archive_ext)
       IN  IF t.ok
           THEN /\ apc' = "extract"
                /\ UNCHANGED <<temp_dir, staged, arch_ret>>
           ELSE /\ apc' = "returned"
                /\ arch_ret' = t
                /\ temp_dir' = DropTempDir(temp_dir)
                /\ staged' = AfterDrop(temp_dir, staged)
    /\ UNCHANGED <<archive_ext, archive_files, extract_out, keep_temp, arch_key,
                   arch_pak_files, arch_utoc_files, api, aui,
                   arch_handled, all_assets,
                   listVars, folderVars, batchVars, callVars,
                   unpackVars, rarVars>>

\* lines 146-153: extract_zip_archive / extract_rar_archive, with `?`
ArchiveExtract ==
    /\ apc = "extract"
    /\ \/ /\ extract_out = "ok"
          /\ staged' = archive_files
          /\ apc' = "walk"
          /\ UNCHANGED <<temp_dir, arch_ret>>
       \/ /\ extract_out # "ok"
          /\ \E part \in (IF extract_out = "cannot_open" THEN {{}}
                          ELSE SUBSET archive_files) :
                staged' = AfterDrop(temp_dir, part)
          /\ arch_ret' = Err("IoError")
          /\ temp_dir' = DropTempDir(temp_dir)
          /\ apc' = "returned"
    /\ UNCHANGED <<archive_ext, archive_files, extract_out, keep_temp, arch_key,
                   arch_pak_files, arch_utoc_files, api, aui,
                   arch_handled, all_assets,
                   listVars, folderVars, batchVars, callVars,
                   unpackVars, rarVars>>

\* lines 161-175: the two walks over the scratch directory
ArchiveWalk ==
    /\ apc = "walk"
    /\ arch_pak_files'  \in Orderings({f \in staged : IsPakExact(f)})
    /\ arch_utoc_files' \in Orderings({f \in staged : IsUtocExact(f)})
    /\ apc' = "run"
    /\ UNCHANGED <<archive_ext, archive_files, extract_out, keep_temp, arch_key,
                   temp_dir, staged, api, aui, arch_handled, all_assets, arch_ret,
                   listVars, folderVars, batchVars, callVars,
                   unpackVars, rarVars>>

\* lines 186-216: one iteration of the pak loop
ArchivePakStep ==
    /\ apc = "run" /\ api <= Len(arch_pak_files)
    /\ LET pak_file == arch_pak_files[api]
           pak_name == FileStem(pak_file)
       IN  IF HasUtoc(pak_name, arch_utoc_files)
           THEN /\ arch_handled' = Insert(arch_handled, pak_file, "bundle_pak_skipped")
                /\ all_assets' = all_assets
           ELSE \E c \in BatchPakContents :
                    LET r == GetPakFileList(pak_file \in staged, arch_key, c).res
                    IN  /\ arch_handled' =
                               Insert(arch_handled, pak_file, IF r.ok THEN "listed" ELSE r.err)
                        /\ all_assets' = IF r.ok THEN all_assets \o r.val ELSE all_assets
    /\ api' = api + 1
    /\ UNCHANGED <<archive_ext, archive_files, extract_out, keep_temp, arch_key,
                   apc, temp_dir, staged, arch_pak_files, arch_utoc_files, aui,
                   arch_ret, listVars, folderVars, batchVars, callVars,
                   unpackVars, rarVars>>

\* lines 222-231: one iteration of the utoc loop
ArchiveUtocStep ==
    /\ apc = "run" /\ api > Len(arch_pak_files) /\ aui <= Len(arch_utoc_files)
    /\ LET utoc_file == arch_utoc_files[aui]
       IN  \E c \in BatchUtocContents \cup {UtocChunks(<<>>)} :
               LET r == ListUtoc(utoc_file \in staged, arch_key, c).res
               IN  /\ arch_handled' =
                          Insert(arch_handled, utoc_file, IF r.ok THEN "listed" ELSE r.err)
                   /\ all_assets' = IF r.ok THEN all_assets \o r.val ELSE all_assets
    /\ aui' = aui + 1
    /\ UNCHANGED <<archive_ext, archive_files, extract_out, keep_temp, arch_key,
                   apc, temp_dir, staged, arch_pak_files, arch_utoc_files, api,
                   arch_ret, listVars, folderVars, batchVars, callVars,
                   unpackVars, rarVars>>

\* lines 233-239: `if keep_temp { drop(temp_dir) }`, then Ok(all_assets);
\* without keep_temp the handle is dropped as the function's scope ends
ArchiveReturn ==
    /\ apc = "run" /\ api > Len(arch_pak_files) /\ aui > Len(arch_utoc_files)
    /\ temp_dir' = IF keep_temp
                   THEN DropTempDir(temp_dir)   \* line 235: drop(temp_dir)
                   ELSE DropTempDir(temp_dir)   \* line 239: the scope ends
    /\ staged' = AfterDrop(temp_dir, staged)
    /\ arch_ret' = Ok(all_assets)
    /\ apc' = "returned"
    /\ UNCHANGED <<archive_ext, archive_files, extract_out, keep_temp, arch_key,
                   arch_pak_files, arch_utoc_files, api, aui,
                   arch_handled, all_assets,
                   listVars, folderVars, batchVars, callVars,
                   unpackVars, rarVars>>

NextArchive ==
    \/ ArchiveTempDir \/ ArchiveDetect \/ ArchiveExtract \/ ArchiveWalk
    \/ ArchivePakStep \/ ArchiveUtocStep \/ ArchiveReturn

SpecArchive == InitArchive /\ [][NextArchive]_vars

-----------------------------------------------------------------------------
(* Claims about the archive flow.                                          *)

ArchiveReturned == apc = "returned"

\* the elements of a sequence
Range(q) == {q[i] : i \in 1..Len(q)}

\* C13 as claimed: a malformed AES key given to an archive run makes the
\* call return an error rather than a result.
C13_MalformedKeyIsHardFailure ==
    (ArchiveReturned /\ KeyRejected(arch_key)) => ~arch_ret.ok

\* C14 as claimed: staging an archive whose extension, lower-cased, is
\* neither zip nor rar fails with InvalidFormat and leaves nothing staged.
C14_UnsupportedArchiveIsInvalidFormat ==
    (ArchiveReturned /\ temp_dir # "none" /\ ~DetectArchiveType(archive_ext).ok) =>
        /\ ~arch_ret.ok /\ arch_ret.err = "InvalidFormat"
        /\ staged = {} /\ arch_handled = EmptyMap

\* C15 as claimed: with the keep flag set, the scratch directory and the
\* staged files still exist after a successful call has returned.
C15_KeepFlagKeepsScratch ==
    (ArchiveReturned /\ arch_ret.ok /\ keep_temp) =>
        temp_dir = "live" /\ staged = archive_files

\* C16: without the keep flag, once the call has returned the scratch
\* directory it created is gone and nothing staged is left, whether the
\* call succeeded, the archive type was unsupported, or staging failed
\* before or after writing entries.
C16_ScratchDeletedOnEveryReturn ==
    (ArchiveReturned /\ ~keep_temp) => temp_dir # "live" /\ staged = {}

\* a call without the keep flag staged a zip archive, listed assets from it
\* and returned them; the scratch directory is deleted
C16_Witness ==
    /\ ArchiveReturned /\ ~keep_temp
    /\ arch_ret.ok /\ arch_ret.val # <<>>
    /\ archive_files # {}
    /\ temp_dir = "deleted" /\ staged = {}

\* C17 as claimed: over the staged archive, discovery selects every file
\* whose extension is pak or utoc compared case-insensitively, and no other.
C17_DiscoveryIgnoresCase ==
    apc = "run" =>
        /\ Range(arch_pak_files)  = {f \in staged : IsPakFile(f)}
        /\ Range(arch_utoc_files) = {f \in staged : IsUtocFile(f)}

-----------------------------------------------------------------------------
(* The operations that open a container, each called on its own.           *)

\* PakUnpacker::list_files: _options is not read, so no key is parsed
PakListFiles(exists, key, c) ==
    IF ~exists THEN [res |-> Err("FileNotFound"), opens |-> FALSE]
    ELSE IF ~c.ok THEN [res |-> Err("PakError"), opens |-> TRUE]
    ELSE [res |-> Ok(ToAssetPaths(c.files)), opens |-> TRUE]

\* UtocLister::list_detailed, reduced to the assets field of its result
ListUtocDetailed(exists, key, c) ==
    IF ~exists THEN [res |-> Err("FileNotFound"), opens |-> FALSE]
    ELSE IF KeyRejected(key) THEN [res |-> Err("InvalidAesKey"), opens |-> FALSE]
    ELSE IF ~c.ok THEN [res |-> Err("UtocError"), opens |-> TRUE]
    ELSE [res |-> Ok(Dedup(SortPaths(CollectAssets(c.chunks)))), opens |-> TRUE]

\* PakUnpacker::get_info, reduced to file_count and file_names; _options
\* is not read
PakGetInfo(exists, key, c) ==
    IF ~exists THEN [res |-> Err("FileNotFound"), opens |-> FALSE]
    ELSE IF ~c.ok THEN [res |-> Err("PakError"), opens |-> TRUE]
    ELSE [res |-> Ok([file_count |-> Len(c.files), file_names |-> c.files]),
          opens |-> TRUE]

PakOps  == {"get_pak_file_list", "unpack", "list_files", "get_info"}
UtocOps == {"list", "list_detailed"}

OpenCall(op, key, exists, c) == [op |-> op, key |-> key, exists |-> exists, c |-> c]

InitOpen ==
    /\ call \in {OpenCall(op, k, ex, c) :
                    op \in PakOps, k \in AesKeyArgs, ex \in BOOLEAN, c \in PakContents}
             \cup
                 {OpenCall(op, k, ex, c) :
                    op \in UtocOps, k \in AesKeyArgs, ex \in BOOLEAN, c \in UtocContents}
    /\ ret = Pending
    /\ ListParked /\ FolderParked /\ BatchParked /\ ArchiveParked
    /\ UnpackParked /\ RarParked

CallGetPakFileList ==
    /\ call.op = "get_pak_file_list" /\ ret = Pending
    /\ ret' = GetPakFileList(call.exists, call.key, call.c).res
    /\ UNCHANGED <<call, listVars, folderVars, batchVars, archiveVars,
                   unpackVars, rarVars>>

CallUnpack ==
    /\ call.op = "unpack" /\ "exists" \in DOMAIN call /\ ret = Pending
    /\ ret' = UnpackPak(call.exists, call.key, call.c).res
    /\ UNCHANGED <<call, listVars, folderVars, batchVars, archiveVars,
                   unpackVars, rarVars>>

CallListFiles ==
    /\ call.op = "list_files" /\ ret = Pending
    /\ ret' = PakListFiles(call.exists, call.key, call.c).res
    /\ UNCHANGED <<call, listVars, folderVars, batchVars, archiveVars,
                   unpackVars, rarVars>>

CallList ==
    /\ call.op = "list" /\ ret = Pending
    /\ ret' = ListUtoc(call.exists, call.key, call.c).res
    /\ UNCHANGED <<call, listVars, folderVars, batchVars, archiveVars,
                   unpackVars, rarVars>>

CallListDetailed ==
    /\ call.op = "list_detailed" /\ ret = Pending
    /\ ret' = ListUtocDetailed(call.exists, call.key, call.c).res
    /\ UNCHANGED <<call, listVars, folderVars, batchVars, archiveVars,
                   unpackVars, rarVars>>

CallGetInfo ==
    /\ call.op = "get_info" /\ ret = Pending
    /\ ret' = PakGetInfo(call.exists, call.key, call.c).res
    /\ UNCHANGED <<call, listVars, folderVars, batchVars, archiveVars,
                   unpackVars, rarVars>>

NextOpen ==
    \/ CallGetPakFileList \/ CallUnpack \/ CallListFiles \/ CallGetInfo
    \/ CallList \/ CallListDetailed

SpecOpen == InitOpen /\ [][NextOpen]_vars

\* C12 as claimed: a malformed AES key passed to an operation that opens a
\* container, on an existing file, makes the operation fail with
\* InvalidAesKey.
C12_MalformedKeyIsInvalidAesKey ==
    (ret # Pending /\ call.exists /\ KeyRejected(call.key)) =>
        ret = Err("InvalidAesKey")

-----------------------------------------------------------------------------
(* to_asset_style_path, called on its own.  A path is its root flag and    *)
(* the sequence of its segments, as Path::components yields them.          *)

NameContent      == <<"C","o","n","t","e","n","t">>
NameContentUpper == <<"C","O","N","T","E","N","T">>
NameContentLower == <<"c","o","n","t","e","n","t">>
NameMod          == <<"M","o","d","X">>
NameHero         == <<"H","e","r","o">>
NameParent       == <<".",".">>
NameBackslash    == <<"a","\\","b">>
RootDir          == <<"/">>

SegmentNames ==
    {NameContent, NameContentUpper, NameMod, NameHero, NameParent, NameBackslash}

PathOf(root, segs) == [root |-> root, segs |-> segs]

PathPaths == {PathOf(r, q) : r \in BOOLEAN, q \in SeqsUpTo(SegmentNames, MaxSegs)}

BaseDirs ==
    {PathOf(FALSE, <<>>), PathOf(TRUE, <<>>), PathOf(FALSE, <<NameMod>>),
     PathOf(TRUE, <<NameMod>>)}

\* path.components(): the root, when there is one, is the first component
PathComponents(p) == IF p.root THEN <<RootDir>> \o p.segs ELSE p.segs

\* comp.as_os_str().to_string_lossy().to_lowercase() == "content"
IsContentComponent(comp) == ToLowercase(comp) = NameContentLower

\* components().position(...): the number of components before the first
\* one that matches, as Some, or None
ContentPosition(comps) ==
    LET hits == {i \in 1..Len(comps) : IsContentComponent(comps[i])}
    IN  IF hits = {} THEN None
        ELSE Some((CHOOSE i \in hits : \A j \in hits : i <= j) - 1)

RECURSIVE JoinComponents(_)
\* collect::<PathBuf>().to_string_lossy(): the components joined with the
\* separator, none after the root
JoinComponents(comps) ==
    IF comps = <<>> THEN <<>>
    ELSE IF Len(comps) = 1 THEN Head(comps)
    ELSE IF Head(comps) = RootDir THEN RootDir \o JoinComponents(Tail(comps))
    ELSE Head(comps) \o <<"/">> \o JoinComponents(Tail(comps))

\* .replace("\\", "/")
ReplaceBackslash(str) ==
    [i \in 1..Len(str) |-> IF str[i] = "\\" THEN "/" ELSE str[i]]

\* path.strip_prefix(base_dir): component-wise
StripPrefix(p, base) ==
    IF /\ p.root = base.root
       /\ Len(base.segs) <= Len(p.segs)
       /\ SubSeq(p.segs, 1, Len(base.segs)) = base.segs
    THEN Ok(SubSeq(p.segs, Len(base.segs) + 1, Len(p.segs)))
    ELSE Err("StripPrefixError")

\* a file_name that also yields a final ..
PathFileNameAny(p) ==
    IF p.segs # <<>> THEN Some(p.segs[Len(p.segs)]) ELSE None

\* path.file_name(): the last segment, unless the path has none or ends in ..
PathFileName(p) ==
    IF p.segs # <<>> /\ p.segs[Len(p.segs)] # NameParent
    THEN Some(p.segs[Len(p.segs)])
    ELSE None

\* skip(n) on the components
SkipComponents(comps, n) == SubSeq(comps, n + 1, Len(comps))

\* to_asset_style_path(path, base_dir)
ToAssetStylePath(p, base) ==
    LET comps == PathComponents(p)
        pos   == ContentPosition(comps)
        rel   == StripPrefix(p, base)
    IN  IF IsSome(pos) /\ Unwrap(pos) > 0
        THEN ReplaceBackslash(JoinComponents(SkipComponents(comps, Unwrap(pos) - 1)))
        ELSE IF rel.ok
        THEN ReplaceBackslash(JoinComponents(rel.val))
        ELSE IF IsSome(PathFileName(p)) THEN Unwrap(PathFileName(p))
        ELSE <<>>

InitStyle ==
    /\ call \in {[op |-> "to_asset_style_path", path |-> p, base_dir |-> b] :
                    p \in PathPaths, b \in BaseDirs}
    /\ ret = Pending
    /\ ListParked /\ FolderParked /\ BatchParked /\ ArchiveParked
    /\ UnpackParked /\ RarParked

CallToAssetStylePath ==
    /\ call.op = "to_asset_style_path" /\ ret = Pending
    /\ ret' = Ok(ToAssetStylePath(call.path, call.base_dir))
    /\ UNCHANGED <<call, listVars, folderVars, batchVars, archiveVars,
                   unpackVars, rarVars>>

NextStyle == CallToAssetStylePath

SpecStyle == InitStyle /\ [][NextStyle]_vars

\* Claims about to_asset_style_path.

StyleReturned == call.op = "to_asset_style_path" /\ ret # Pending

\* the positions i > 0 (counted from 0) of the components of p equal to
\* Content ignoring case
ContentAfterFirst(p) ==
    {i \in 1..(Len(PathComponents(p)) - 1) :
        ToLowercase(PathComponents(p)[i + 1]) = NameContentLower}

\* the path from component n (counted from 0) onward, with forward slashes
FromComponent(p, n) ==
    ReplaceBackslash(JoinComponents(SubSeq(PathComponents(p), n + 1,
                                           Len(PathComponents(p)))))

\* p lies under base
IsUnder(p, base) ==
    /\ p.root = base.root
    /\ Len(base.segs) <= Len(p.segs)
    /\ \A i \in 1..Len(base.segs) : p.segs[i] = base.segs[i]

\* p relative to the base it lies under, with forward slashes
RelativeTo(p, base) ==
    ReplaceBackslash(JoinComponents(
        [i \in 1..(Len(p.segs) - Len(base.segs)) |-> p.segs[Len(base.segs) + i]]))

\* the final segment of p, the empty string when p has no segment
FinalSegment(p) == IF p.segs = <<>> THEN <<>> ELSE p.segs[Len(p.segs)]

\* C18 as claimed: for every path with a Content segment at some position
\* i > 0, the result is the path from segment i-1 onward, also when another
\* Content segment stands at position 0.
C18_PrimaryRuleFromAnyContent ==
    (StyleReturned /\ ContentAfterFirst(call.path) # {}) =>
        \E i \in ContentAfterFirst(call.path) :
            ret.val = FromComponent(call.path, i - 1)

-----------------------------------------------------------------------------
(* PakUnpacker::unpack, the output path of each interior file.             *)

\* PakUnpackOptions::default().strip_prefix
DefaultStripPrefix == <<".",".","/",".",".","/",".",".","/">>

StripPrefixes == {DefaultStripPrefix, <<>>, <<"G","a","m","e","/">>}

InteriorDotted   == <<".",".","/",".",".","/",".",".","/","G","a","m","e","/","X",".","u","a","s","s","e","t">>
InteriorPlain    == <<"G","a","m","e","/","X",".","u","a","s","s","e","t">>
InteriorAbsolute == <<"/","G","a","m","e","/","X",".","u","a","s","s","e","t">>
InteriorPartial  == <<".",".","/","G","a","m","e","/","X",".","u","a","s","s","e","t">>
InteriorTwice    == <<".",".","/",".",".","/",".",".","/",".",".","/",".",".","/",".",".","/","X",".","u","a","s","s","e","t">>

InteriorPaths ==
    {InteriorDotted, InteriorPlain, InteriorAbsolute, InteriorPartial, InteriorTwice}

OutputDirs == {<<"o","u","t">>, <<"/","t","/","o","u","t">>}

\* str::strip_prefix: the rest of the string after the prefix, or None
StrStripPrefix(str, pre) ==
    IF /\ Len(pre) <= Len(str)
       /\ SubSeq(str, 1, Len(pre)) = pre
    THEN Some(SubSeq(str, Len(pre) + 1, Len(str)))
    ELSE None

\* a stripped_path that is the interior path as it is
StrippedPathKeepsPrefix(file_path, strip_prefix) == file_path

\* lines 107-111: stripped_path
StrippedPath(file_path, strip_prefix) ==
    IF strip_prefix # <<>>
    THEN IF IsSome(StrStripPrefix(file_path, strip_prefix))
         THEN Unwrap(StrStripPrefix(file_path, strip_prefix))
         ELSE file_path
    ELSE file_path

\* Path::join: an absolute path replaces the base, any other is appended
\* after a separator
PathJoin(base, path) ==
    IF path # <<>> /\ path[1] = "/" THEN path
    ELSE IF base = <<>> \/ base[Len(base)] = "/" THEN base \o path
    ELSE base \o <<"/">> \o path

\* line 114: output_path
OutputPath(output_dir, file_path, strip_prefix) ==
    PathJoin(output_dir, StrippedPath(file_path, strip_prefix))

InitUnpack ==
    /\ call \in {[op |-> "unpack", files |-> fs, strip_prefix |-> sp, output_dir |-> od] :
                    fs \in SeqsUpTo(InteriorPaths, MaxUnpackFiles),
                    sp \in StripPrefixes, od \in OutputDirs}
    /\ ret = Ok(<<>>)
    /\ ListParked /\ FolderParked /\ BatchParked /\ ArchiveParked
    /\ UnpackParked /\ RarParked

\* lines 95-138: one iteration of the loop over the pak's files; ret holds
\* the output_path of the files written so far
UnpackWriteFile ==
    /\ call.op = "unpack" /\ "files" \in DOMAIN call
    /\ Len(ret.val) < Len(call.files)
    /\ ret' = Ok(Append(ret.val,
                 OutputPath(call.output_dir, call.files[Len(ret.val) + 1],
                            call.strip_prefix)))
    /\ UNCHANGED <<call, listVars, folderVars, batchVars, archiveVars,
                   unpackVars, rarVars>>

NextUnpack == UnpackWriteFile

SpecUnpack == InitUnpack /\ [][NextUnpack]_vars

\* the output path C20 states for an interior path f: output_dir, a
\* separator, and f without strip_prefix at its start (f itself when it
\* does not begin with strip_prefix or strip_prefix is empty); Path::join
\* lets an absolute rest stand alone
ExpectedOutputPath(od, f, sp) ==
    LET n      == Len(sp)
        begins == n <= Len(f) /\ \A j \in 1..n : f[j] = sp[j]
        rest   == IF n > 0 /\ begins THEN [j \in 1..(Len(f) - n) |-> f[n + j]] ELSE f
    IN  IF rest # <<>> /\ rest[1] = "/" THEN rest ELSE od \o <<"/">> \o rest

\* C20: every file written so far went to output_dir joined with its
\* interior path less strip_prefix at its start, the path unchanged when
\* it does not begin with strip_prefix or strip_prefix is empty.
C20_OutputPathStripsPrefix ==
    (call.op = "unpack" /\ "files" \in DOMAIN call) =>
        \A i \in 1..Len(ret.val) :
            ret.val[i] = ExpectedOutputPath(call.output_dir, call.files[i],
                                            call.strip_prefix)

\* ../../../Game/X.uasset with strip_prefix ../../../ was written to
\* out/Game/X.uasset, and Game/X.uasset after it to the same place
C20_Witness ==
    /\ call.op = "unpack" /\ "files" \in DOMAIN call
    /\ call.files = <<InteriorDotted, InteriorPlain>>
    /\ call.strip_prefix = DefaultStripPrefix
    /\ call.output_dir = <<"o","u","t">>
    /\ ret = Ok(<<<<"o","u","t","/","G","a","m","e","/","X",".","u","a","s","s","e","t">>, <<"o","u","t","/","G","a","m","e","/","X",".","u","a","s","s","e","t">>>>)

-----------------------------------------------------------------------------
(* PakUnpacker::unpack, one call from its first check to its return, with  *)
(* a progress callback that records what it is given.                      *)

InteriorMap == <<"G","a","m","e","/","M",".","u","m","a","p">>

RunPaths == {InteriorDotted, InteriorAbsolute, InteriorTwice, InteriorMap}

\* the pak file of the call: not there, unreadable, or a listing
RunPaks ==
    {[exists |-> FALSE, content |-> CorruptPak],
     [exists |-> TRUE, content |-> CorruptPak]}
        \cup {[exists |-> TRUE, content |-> PakListing(fs)] :
                 fs \in SeqsUpTo(RunPaths, MaxUnpackFiles)}

\* pak.files() of the pak of the call
RunFiles == upak.content.files

\* glob::Pattern for `*<suffix>`: a star followed by literal characters
PatternUasset == [suffix |-> <<".","u","a","s","s","e","t">>]

RunOutputDir == <<"o","u","t">>

\* PakUnpackOptions as the builder methods set it, and output_dir
RunOptions ==
    [output_dir : {RunOutputDir}, aes_key : AesKeyArgs,
     strip_prefix : {DefaultStripPrefix, <<>>}, force : BOOLEAN,
     include_patterns : {<<>>, <<PatternUasset>>}]

\* an UnpackedFile that records an error
UnpackedFileWithError(file_path, output_path) ==
    [original_path |-> AssetPathNew(file_path), output_path |-> output_path,
     error |-> Some("failed")]

\* UnpackedFile
UnpackedFile(file_path, output_path) ==
    [original_path |-> AssetPathNew(file_path), output_path |-> output_path,
     error |-> None]

\* the bytes pak.get yields for an interior path
PakData(file_path) == <<"data", file_path>>

\* Path::parent: the path without its last component
PathParent(path) ==
    LET k == LastIndexOf(path, "/")
    IN  IF k = 0 THEN <<>> ELSE IF k = 1 THEN <<"/">> ELSE SubSeq(path, 1, k - 1)

\* the directories that exist when the disk holds the files of d
DirsOf(d) == {PathParent(f) : f \in DOMAIN d}

\* the output paths the files of a pak are written to
RunTargets(c, o) ==
    {OutputPath(o.output_dir, c.content.files[i], o.strip_prefix) :
        i \in 1..Len(c.content.files)}

InitRun ==
    /\ upak \in RunPaks
    /\ uopts \in RunOptions
    /\ upc = "start"
    /\ \E pre \in BOOLEAN :
          disk = [f \in (IF pre THEN RunTargets(upak, uopts) ELSE {}) |-> "old"]
    /\ created = {} /\ unpacked_files = <<>> /\ events = <<>> /\ uret = Pending
    /\ ListParked /\ FolderParked /\ BatchParked /\ ArchiveParked /\ CallParked
    /\ RarParked

\* lines 42-92: the existence check, the output directory, the key, the
\* open of the container and the listing of its files
UnpackOpen ==
    /\ upc = "start"
    /\ IF ~upak.exists
       THEN /\ uret' = Err("FileNotFound") /\ upc' = "done"
            /\ UNCHANGED <<created, events>>
       ELSE /\ created' = IF DOMAIN disk = {} THEN {uopts.output_dir} ELSE {}
            /\ IF KeyRejected(uopts.aes_key)
               THEN /\ uret' = Err("InvalidAesKey") /\ upc' = "done"
                    /\ events' = <<ProgressInfo(0, "Opening", 0, 1)>>
               ELSE IF ~upak.content.ok
               THEN /\ uret' = Err("PakError") /\ upc' = "done"
                    /\ events' = <<ProgressInfo(0, "Opening", 0, 1)>>
               ELSE /\ uret' = uret /\ upc' = "loop"
                    /\ events' = <<ProgressInfo(0, "Opening", 0, 1),
                                   ProgressInfo(20, "Reading", 0, 1),
                                   ProgressInfo(30, "Found", 0, Len(RunFiles))>>
    /\ UNCHANGED <<upak, uopts, disk, unpacked_files>>
    /\ UNCHANGED <<listVars, folderVars, batchVars, archiveVars, callVars, rarVars>>

\* a percentage that grows by 70 with every file
LoopPercentagePerFile(processed, total_files) == 30 + (processed * 70)

\* line 97: 30 + ((processed / total_files) * 70.0) as u8; the quotients
\* met here have the floor of the exact product as their f64 result
LoopPercentage(processed, total_files) == 30 + ((processed * 70) \div total_files)

\* what can happen to one file of the loop
FileOutcomes == {"ok", "mkdir_fails", "read_fails", "write_fails"}

\* lines 95-139: one iteration of the loop over the pak's files
UnpackFile ==
    /\ upc = "loop"
    /\ Len(unpacked_files) < Len(RunFiles)
    /\ LET processed   == Len(unpacked_files) + 1
           file_path   == RunFiles[processed]
           output_path == OutputPath(uopts.output_dir, file_path, uopts.strip_prefix)
           parent      == PathParent(output_path)
           exist       == DirsOf(disk) \cup created \cup {uopts.output_dir, <<>>}
       IN  /\ events' = Append(events,
                 ProgressInfo(LoopPercentage(processed, Len(RunFiles)),
                              "Unpacking", processed, Len(RunFiles)))
           /\ \E oc \in FileOutcomes :
                 CASE oc = "mkdir_fails" ->
                        /\ uret' = Err("IoError") /\ upc' = "done"
                        /\ UNCHANGED <<disk, created, unpacked_files>>
                   [] oc = "read_fails" ->
                        /\ uret' = Err("PakError") /\ upc' = "done"
                        /\ created' = created \cup ({parent} \ exist)
                        /\ UNCHANGED <<disk, unpacked_files>>
                   [] oc = "write_fails" ->
                        /\ uret' = Err("IoError") /\ upc' = "done"
                        /\ created' = created \cup ({parent} \ exist)
                        /\ UNCHANGED <<disk, unpacked_files>>
                   [] oc = "ok" ->
                        /\ disk' = [f \in DOMAIN disk \cup {output_path} |->
                                      IF f = output_path THEN PakData(file_path)
                                      ELSE disk[f]]
                        /\ created' = created \cup ({parent} \ exist)
                                              \cup ({output_path} \ DOMAIN disk)
                        /\ unpacked_files' =
                              Append(unpacked_files, UnpackedFile(file_path, output_path))
                        /\ UNCHANGED <<uret, upc>>
    /\ UNCHANGED <<upak, uopts>>
    /\ UNCHANGED <<listVars, folderVars, batchVars, archiveVars, callVars, rarVars>>

\* lines 141-148: the last progress report and the return
UnpackFinish ==
    /\ upc = "loop"
    /\ Len(unpacked_files) = Len(RunFiles)
    /\ events' = Append(events,
          ProgressInfo(100, "Completed", Len(unpacked_files), Len(unpacked_files)))
    /\ uret' = Ok(unpacked_files)
    /\ upc' = "done"
    /\ UNCHANGED <<upak, uopts, disk, created, unpacked_files>>
    /\ UNCHANGED <<listVars, folderVars, batchVars, archiveVars, callVars, rarVars>>

NextRun == UnpackOpen \/ UnpackFile \/ UnpackFinish

SpecRun == InitRun /\ [][NextRun]_vars

\* a pattern `*<suffix>` matches the strings that end with the suffix
PatternMatches(pat, str) ==
    /\ Len(pat.suffix) <= Len(str)
    /\ SubSeq(str, Len(str) - Len(pat.suffix) + 1, Len(str)) = pat.suffix

\* C21 as claimed: with include_patterns non-empty, every interior path the
\* call extracted matches at least one of the patterns.
C21_OnlyMatchingPathsProcessed ==
    (upc # "parked" /\ uopts.include_patterns # <<>>) =>
        \A i \in 1..Len(unpacked_files) :
            \E k \in 1..Len(uopts.include_patterns) :
                PatternMatches(uopts.include_patterns[k],
                               unpacked_files[i].original_path)

\* C22 as claimed: with force not set, an output file that existed before
\* the call keeps the content it had.
C22_NoForceKeepsExistingFile ==
    (upc # "parked" /\ ~uopts.force) =>
        \A f \in DOMAIN disk \ created : disk[f] = "old"

\* the range of percentages the phase of a report allows
PhaseRange(msg) ==
    IF msg \in {"Opening", "Parsing"} THEN 0..20
    ELSE IF msg \in {"Reading", "Extracting"} THEN 20..30
    ELSE 30..100

\* the unit's call has returned successfully
UnitSucceeded ==
    \/ upc = "done" /\ uret.ok
    \/ upc = "parked" /\ list_out # None

\* the two calls a progress callback can be set on
SpecProgress == (InitList \/ InitRun) /\ [][NextList \/ NextRun]_vars

\* C23: within one call of PakUnpacker::unpack or UtocLister::list the
\* reports have non-decreasing processed, a percentage in 0..100 and in the
\* range of their phase, processed at most total, and the last report of a
\* successful call has percentage 100.
C23_ProgressEventsWellFormed ==
    /\ \A i \in 1..Len(events) :
          /\ events[i].percentage \in 0..100
          /\ events[i].percentage \in PhaseRange(events[i].message)
          /\ events[i].processed <= events[i].total
    /\ \A i \in 1..Len(events) : \A j \in i..Len(events) :
          events[i].processed <= events[j].processed
    /\ UnitSucceeded =>
          /\ events # <<>>
          /\ events[Len(events)].percentage = 100

\* a pak without entries was unpacked and the last report says 100
C23_Witness ==
    /\ upc = "done" /\ uret.ok /\ RunFiles = <<>>
    /\ Len(events) = 4
    /\ events[4] = ProgressInfo(100, "Completed", 0, 0)

\* a utoc of MaxChunks chunk records was listed
C23_ListWitness ==
    /\ upc = "parked" /\ list_out # None /\ Len(chunks) = MaxChunks
    /\ Len(events) = MaxChunks + 5

\* the files the loop has started on
FilesStarted ==
    Cardinality({i \in 1..Len(events) : events[i].message = "Unpacking"})

\* C28: a successful unpack returns one entry for each interior path of the
\* pak, in the pak's order and without an error recorded; a failure at one
\* file is returned as the error, no later file is started, and the files
\* written before it are on disk.
C28_AllOrError ==
    upc = "done" =>
        IF uret.ok
        THEN /\ Len(uret.val) = Len(RunFiles)
             /\ \A i \in 1..Len(uret.val) :
                   /\ uret.val[i].original_path = RunFiles[i]
                   /\ uret.val[i].error = None
                   /\ uret.val[i].output_path \in DOMAIN disk
        ELSE FilesStarted > 0 =>
             /\ uret.err \in {"PakError", "IoError"}
             /\ Len(unpacked_files) = FilesStarted - 1
             /\ \A i \in 1..Len(unpacked_files) :
                   /\ unpacked_files[i].original_path = RunFiles[i]
                   /\ unpacked_files[i].output_path \in DOMAIN disk
                   /\ disk[unpacked_files[i].output_path] # "old"

\* the write of the second of two files failed: the first is on disk
C28_Witness ==
    /\ upc = "done" /\ uret = Err("IoError")
    /\ Len(RunFiles) = 2 /\ FilesStarted = 2 /\ Len(unpacked_files) = 1
    /\ unpacked_files[1].output_path \in DOMAIN disk

\* every container operation, called on its own
SpecContainerOps == (InitOpen \/ InitRun) /\ [][NextOpen \/ NextRun]_vars

\* C29: on a path that does not exist every container operation returns
\* FileNotFound whatever the key is, and unpack has then reported no
\* progress and created nothing.
C29_FileNotFoundFirst ==
    /\ (/\ call.op \in PakOps \cup UtocOps
        /\ "exists" \in DOMAIN call
        /\ ret # Pending) =>
           (~call.exists => ret = Err("FileNotFound"))
    /\ (upc = "done" /\ ~upak.exists) =>
           /\ uret = Err("FileNotFound")
           /\ events = <<>> /\ created = {}
           /\ \A f \in DOMAIN disk : disk[f] = "old"

\* get_pak_file_list on a missing file with a malformed key
C29_Witness ==
    /\ call.op = "get_pak_file_list" /\ "exists" \in DOMAIN call
    /\ ~call.exists /\ KeyRejected(call.key)
    /\ ret = Err("FileNotFound")

\* unpack on a missing file with a malformed key
C29_UnpackWitness ==
    /\ upc = "done" /\ ~upak.exists /\ KeyRejected(uopts.aes_key)
    /\ uret = Err("FileNotFound") /\ events = <<>> /\ created = {}

\* a path as the file system resolves it: its components, with each `..`
\* taking back the component before it
RECURSIVE Resolved(_)
Resolved(cs) ==
    IF cs = <<>> THEN <<>>
    ELSE LET r == Resolved(SubSeq(cs, 1, Len(cs) - 1))
             c == cs[Len(cs)]
         IN  IF c = <<".", ".">> /\ r # <<>> /\ r[Len(r)] # <<".", ".">>
             THEN SubSeq(r, 1, Len(r) - 1)
             ELSE Append(r, c)

IsAbsolute(path) == path # <<>> /\ path[1] = "/"

\* path is dir or lies below it
Inside(path, dir) ==
    LET a == Resolved(Components(path))
        d == Resolved(Components(dir))
    IN  /\ IsAbsolute(path) = IsAbsolute(dir)
        /\ Len(d) <= Len(a)
        /\ SubSeq(a, 1, Len(d)) = d

\* C30 as claimed: every file and directory the call creates lies inside
\* output_dir.
C30_CreatedInsideOutputDir ==
    upc # "parked" => \A path \in created : Inside(path, uopts.output_dir)

-----------------------------------------------------------------------------
(* AssetPath: its constructors and its derived comparison.                 *)

PathBackslash == <<"G","a","m","e","\\","A",".","u","a","s","s","e","t">>

AssetPathStrings == {PathA, PathB, PathAUpper, PathBackslash, NameBackslash, <<>>}

\* AssetPath::new and the From impls for String, &str and PathBuf
AssetPathOps == {"new", "from_string", "from_str", "from_pathbuf"}

\* From<String>, From<&str>, From<PathBuf>: the string as it is given
AssetPathFrom(str) == str

InitAssetPath ==
    /\ call \in [op : AssetPathOps, s : AssetPathStrings, t : AssetPathStrings]
    /\ ret = Pending
    /\ ListParked /\ FolderParked /\ BatchParked /\ ArchiveParked
    /\ UnpackParked /\ RarParked

\* two values are built and compared with the derived PartialEq and Ord,
\* which compare the inner String
CallAssetPath ==
    /\ call.op \in AssetPathOps /\ ret = Pending
    /\ LET a == IF call.op = "new" THEN AssetPathNew(call.s) ELSE AssetPathFrom(call.s)
           b == IF call.op = "new" THEN AssetPathNew(call.t) ELSE AssetPathFrom(call.t)
       IN  ret' = Ok([a |-> a, b |-> b, eq |-> a = b, lt |-> StrLess(a, b)])
    /\ UNCHANGED <<call, listVars, folderVars, batchVars, archiveVars,
                   unpackVars, rarVars>>

NextAssetPath == CallAssetPath

SpecAssetPath == InitAssetPath /\ [][NextAssetPath]_vars

HasBackslash(str) == \E i \in 1..Len(str) : str[i] = "\\"

\* C24 as claimed: an AssetPath the library produces holds a string without
\* a backslash, and two AssetPaths compare and order as their strings do.
C24_AssetPathNormalized ==
    (call.op \in AssetPathOps /\ ret.ok) =>
        /\ ~HasBackslash(ret.val.a) /\ ~HasBackslash(ret.val.b)
        /\ ret.val.eq = (ret.val.a = ret.val.b)
        /\ ret.val.lt = StrLess(ret.val.a, ret.val.b)

-----------------------------------------------------------------------------
(* Unpacker::find_rar_tool.                                                *)

\* lines 324-328: the well-known installation paths, in the order tried
WinrarPaths ==
    <<"C:\\Program Files\\WinRAR\\rar.exe",
      "C:\\Program Files (x86)\\WinRAR\\rar.exe",
      "C:\\WinRAR\\rar.exe">>

\* a path RAR_TOOL_PATH can name, and the one `where rar.exe` can print
EnvToolPath   == "D:\\tools\\rar.exe"
WhereToolPath == "E:\\bin\\rar.exe"

\* what running `where rar.exe` can do: it cannot be started, exits with a
\* failure, prints nothing, or prints a path
WhereOutcomes == {"spawn_fails", "exit_failure", "empty", "found"}

\* a candidate that counts as there whatever the file system holds
RarExistsAlways(path) == TRUE

\* Path::new(path).exists()
RarExists(path) == path \in rar_exists

\* one consulted candidate
Probe(kind, path) == [kind |-> kind, path |-> path]

\* the well-known paths consulted so far
WinrarProbed == Cardinality({i \in 1..Len(rar_probed) : rar_probed[i].kind = "winrar"})

InitRar ==
    /\ rar_env \in {None, Some(EnvToolPath)}
    /\ rar_exists \in SUBSET ({EnvToolPath} \cup {WinrarPaths[i] : i \in 1..Len(WinrarPaths)})
    /\ rar_where \in WhereOutcomes
    /\ rpc = "env" /\ rar_probed = <<>> /\ rar_ret = Pending
    /\ ListParked /\ FolderParked /\ BatchParked /\ ArchiveParked /\ CallParked
    /\ UnpackParked

\* lines 317-321: RAR_TOOL_PATH, used when the path it names exists
RarCheckEnv ==
    /\ rpc = "env"
    /\ IF IsSome(rar_env)
       THEN /\ rar_probed' = Append(rar_probed, Probe("env", Unwrap(rar_env)))
            /\ IF RarExists(Unwrap(rar_env))
               THEN rar_ret' = Ok(Unwrap(rar_env)) /\ rpc' = "done"
               ELSE rar_ret' = rar_ret /\ rpc' = "winrar"
       ELSE /\ rpc' = "winrar"
            /\ UNCHANGED <<rar_probed, rar_ret>>
    /\ UNCHANGED <<rar_env, rar_exists, rar_where>>
    /\ UNCHANGED <<listVars, folderVars, batchVars, archiveVars, callVars, unpackVars>>

\* lines 330-334: the next of the well-known paths
RarCheckWinrar ==
    /\ rpc = "winrar"
    /\ LET path == WinrarPaths[WinrarProbed + 1]
       IN  /\ rar_probed' = Append(rar_probed, Probe("winrar", path))
           /\ IF RarExists(path)
              THEN rar_ret' = Ok(path) /\ rpc' = "done"
              ELSE /\ rar_ret' = rar_ret
                   /\ rpc' = IF WinrarProbed + 1 = Len(WinrarPaths) THEN "where" ELSE "winrar"
    /\ UNCHANGED <<rar_env, rar_exists, rar_where>>
    /\ UNCHANGED <<listVars, folderVars, batchVars, archiveVars, callVars, unpackVars>>

\* lines 337-346: `where rar.exe`, and the error when it yields no path
RarWhere ==
    /\ rpc = "where"
    /\ rar_probed' = Append(rar_probed, Probe("where", WhereToolPath))
    /\ rar_ret' = IF rar_where = "found" THEN Ok(WhereToolPath) ELSE Err("IoError")
    /\ rpc' = "done"
    /\ UNCHANGED <<rar_env, rar_exists, rar_where>>
    /\ UNCHANGED <<listVars, folderVars, batchVars, archiveVars, callVars, unpackVars>>

NextRar == RarCheckEnv \/ RarCheckWinrar \/ RarWhere

SpecRar == InitRar /\ [][NextRar]_vars

\* the candidates in the order C26 states: the override when the variable
\* is set, the well-known paths, the PATH lookup
RarCandidates ==
    (IF rar_env = <<>> THEN <<>> ELSE <<Probe("env", rar_env[1])>>)
    \o [i \in 1..Len(WinrarPaths) |-> Probe("winrar", WinrarPaths[i])]
    \o <<Probe("where", WhereToolPath)>>

\* the candidate is there: its path exists, or the lookup printed a path
RarCandidateFound(c) ==
    IF c.kind = "where" THEN rar_where = "found" ELSE c.path \in rar_exists

\* C26: the candidates are consulted in the stated order, the first one
\* that is there is returned and none after it is consulted, and the call
\* fails only when none is there.
C26_FirstExistingCandidate ==
    /\ Len(rar_probed) <= Len(RarCandidates)
    /\ \A i \in 1..Len(rar_probed) : rar_probed[i] = RarCandidates[i]
    /\ \A i \in 1..(Len(rar_probed) - 1) : ~RarCandidateFound(rar_probed[i])
    /\ rpc = "done" =>
          LET last == rar_probed[Len(rar_probed)]
          IN  IF \E i \in 1..Len(RarCandidates) : RarCandidateFound(RarCandidates[i])
              THEN /\ RarCandidateFound(last)
                   /\ rar_ret = Ok(last.path)
              ELSE /\ rar_ret = Err("IoError")
                   /\ rar_probed = RarCandidates

\* the override names a missing file, the first well-known path is missing
\* and the second is there: it is returned, the third and PATH not consulted
C26_Witness ==
    /\ rpc = "done"
    /\ rar_env = Some(EnvToolPath) /\ EnvToolPath \notin rar_exists
    /\ WinrarPaths[1] \notin rar_exists /\ WinrarPaths[2] \in rar_exists
    /\ WinrarPaths[3] \in rar_exists /\ rar_where = "found"
    /\ rar_ret = Ok(WinrarPaths[2])
    /\ Len(rar_probed) = 3

-----------------------------------------------------------------------------
(* The entry points together.                                              *)

Init ==
    \/ InitList \/ InitFolder \/ InitBatch \/ InitArchive
    \/ InitOpen \/ InitStyle \/ InitUnpack \/ InitRun
    \/ InitAssetPath \/ InitRar
Next ==
    \/ NextList \/ NextFolder \/ NextBatch \/ NextArchive
    \/ NextOpen \/ NextStyle \/ NextUnpack \/ NextRun
    \/ NextAssetPath \/ NextRar
Spec == Init /\ [][Next]_vars

=============================================================================
